---- MODULE Spec2Model ----
(***************************************************************************)
(* A model of anbani.py, the Mkhedruli alphabet quiz: the stats store      *)
(* (load_stats / save_stats over the JSON stats file), the weighting of    *)
(* choose_character, the option list of a question and the session loop of *)
(* main with the raw keystroke read of getch.                              *)
(*                                                                         *)
(* Numbers.  Response times are rounded to two decimals by the program, so *)
(* a float avg_time is kept as Float(h), h the number of hundredths of a   *)
(* second.  None is Python's None (JSON null).  Counts are naturals.       *)
(***************************************************************************)
EXTENDS Integers, Sequences, FiniteSets, TLC

VARIABLES
    pc,                 \* where main is: Start, Loaded, AwaitingAnswer, Evaluated, Terminated, Crashed
    stats,              \* main's local stats (the in-memory stats map)
    file,               \* the stats file STATS_FILE on disk
    character,          \* main's local character (the target of the question)
    options,            \* main's local options (the rendered option list)
    answer,             \* main's local answer (the last character getch returned)
    time_diff,          \* main's local time_diff, in hundredths of a second
    answered_correctly, \* main's local answered_correctly
    terminal,           \* the terminal attributes of stdin
    old_settings,       \* getch's local old_settings
    exit_status,        \* the exit status of the process, "none" while it runs
    raised,             \* the uncaught exception that ended the process, "" if none
    questions           \* number of iterations of main's loop started so far

vars == <<pc, stats, file, character, options, answer, time_diff, answered_correctly,
          terminal, old_settings, exit_status, raised, questions>>

-----------------------------------------------------------------------------
(* Bounds of the model *)

\* iterations of main's loop (questions) in one session
MaxQuestions == 2

\* num_options, the number of options of a question: 5 in the program (line 49),
\* fewer here so that every option list of every question is enumerated
num_options == 3

-----------------------------------------------------------------------------
(* Program constants *)

\* Four entries of the alphabet table (of its 33), in the table's order.
Glyphs == <<"ა", "ბ", "გ", "დ">>

mkhedruli_alphabet ==
    ("ა" :> "[a]   ani") @@ ("ბ" :> "[b]   bani") @@ ("გ" :> "[g]   gani") @@
    ("დ" :> "[d]   doni")

EXIT_KEY == "0"

\* Python values
None == <<"None">>
Float(h) == <<"float", h>>
Hundredths(v) == v[2]

Range(s) == {s[i] : i \in 1..Len(s)}

\* The elements of seq that satisfy keep, in seq's order (a comprehension with an if).
RECURSIVE Filter(_, _)
Filter(seq, keep) ==
    IF seq = <<>> THEN <<>>
    ELSE (IF Head(seq) \in keep THEN <<Head(seq)>> ELSE <<>>) \o Filter(Tail(seq), keep)

-----------------------------------------------------------------------------
(* The stats file: JSON text as a sequence of tokens.  A token is a tuple:  *)
(* <<"{">>, <<"}">>, <<":">>, <<",">>, <<"str", s>>, <<"int", n>>,          *)
(* <<"float", i, digits>> for the literal i.digits, and <<"null">>.  Bytes   *)
(* that are no text in the encoding of the file, such as the first bytes of *)
(* a glyph at the end of a file cut short, are the token <<"undecodable">>. *)

\* FloatLiteral with the fraction written without its leading zero (0.03 as 0.3)
FloatLiteral_unpadded(h) ==
    LET frac == h % 100
    IN  <<"float", h \div 100,
          IF frac < 10 THEN <<frac>> ELSE <<frac \div 10, frac % 10>> >>

\* repr of a float with at most two decimals: 2.0, 0.5, 0.35
FloatLiteral(h) ==
    LET frac == h % 100
    IN  <<"float", h \div 100,
          IF frac % 10 = 0 THEN <<frac \div 10>> ELSE <<frac \div 10, frac % 10>> >>

\* json.dump of one value of a stat record: the counts are ints, avg_time is
\* None or a float
DumpValue(field, v) ==
    IF field # "avg_time" THEN <<"int", v>>
    ELSE IF v = None THEN <<"null">>
    ELSE FloatLiteral(Hundredths(v))

FieldOrder == <<"correct", "incorrect", "avg_time">>

RECURSIVE DumpFields(_, _)
DumpFields(stat, fields) ==
    IF fields = <<>> THEN <<>>
    ELSE <<<<"str", Head(fields)>>, <<":">>, DumpValue(Head(fields), stat[Head(fields)])>>
         \o (IF Tail(fields) = <<>> THEN <<>> ELSE <<<<",">>>>)
         \o DumpFields(stat, Tail(fields))

DumpRecord(stat) ==
    <<<<"{">>>> \o DumpFields(stat, Filter(FieldOrder, DOMAIN stat)) \o <<<<"}">>>>

RECURSIVE DumpEntries(_, _)
DumpEntries(map, keys) ==
    IF keys = <<>> THEN <<>>
    ELSE <<<<"str", Head(keys)>>, <<":">>>> \o DumpRecord(map[Head(keys)])
         \o (IF Tail(keys) = <<>> THEN <<>> ELSE <<<<",">>>>)
         \o DumpEntries(map, Tail(keys))

\* json.dump(stats, f, ensure_ascii=False, indent=4): the text written
json_dump(map) ==
    <<<<"{">>>> \o DumpEntries(map, Filter(Glyphs, DOMAIN map)) \o <<<<"}">>>>

\* the value of a number or null literal
LoadValue(tok) ==
    CASE tok[1] = "int" -> tok[2]
      [] tok[1] = "null" -> None
      [] tok[1] = "float" ->
            Float(tok[2] * 100
                  + (IF Len(tok[3]) = 1 THEN tok[3][1] * 10 ELSE tok[3][1] * 10 + tok[3][2]))

IsLiteral(tok) == tok[1] \in {"int", "null", "float"}

JSONDecodeError == [ok |-> FALSE, value |-> <<>>, rest |-> <<>>]

\* The members of an inner object, after its "{": str : literal (, str : literal)* }
RECURSIVE LoadFields(_, _)
LoadFields(toks, acc) ==
    IF Len(toks) >= 1 /\ toks[1] = <<"}">> /\ acc = <<>>
    THEN [ok |-> TRUE, value |-> acc, rest |-> Tail(toks)]
    ELSE IF Len(toks) >= 4 /\ toks[1][1] = "str" /\ toks[2] = <<":">> /\ IsLiteral(toks[3])
    THEN LET got == (toks[1][2] :> LoadValue(toks[3])) @@ acc
             after == SubSeq(toks, 4, Len(toks))
         IN  IF after = <<>> THEN JSONDecodeError
             ELSE IF after[1] = <<"}">>
             THEN [ok |-> TRUE, value |-> got, rest |-> Tail(after)]
             ELSE IF after[1] = <<",">>
             THEN LoadFields(Tail(after), got)
             ELSE JSONDecodeError
    ELSE JSONDecodeError

\* The members of the outer object, after its "{": str : { ... } (, str : { ... })* }
RECURSIVE LoadEntries(_, _)
LoadEntries(toks, acc) ==
    IF Len(toks) >= 1 /\ toks[1] = <<"}">> /\ acc = <<>>
    THEN [ok |-> TRUE, value |-> acc, rest |-> Tail(toks)]
    ELSE IF Len(toks) >= 3 /\ toks[1][1] = "str" /\ toks[2] = <<":">> /\ toks[3] = <<"{">>
    THEN LET rec == LoadFields(SubSeq(toks, 4, Len(toks)), <<>>)
         IN  IF ~rec.ok \/ rec.rest = <<>> THEN JSONDecodeError
             ELSE LET got == (toks[1][2] :> rec.value) @@ acc
                  IN  IF rec.rest[1] = <<"}">>
                      THEN [ok |-> TRUE, value |-> got, rest |-> Tail(rec.rest)]
                      ELSE IF rec.rest[1] = <<",">>
                      THEN LoadEntries(Tail(rec.rest), got)
                      ELSE JSONDecodeError
    ELSE JSONDecodeError

\* json.load(f): the parsed map, or ok = FALSE for json.decoder.JSONDecodeError
json_load(text) ==
    IF Len(text) >= 1 /\ text[1] = <<"{">>
    THEN LET r == LoadEntries(Tail(text), <<>>)
         IN  IF r.ok /\ r.rest = <<>> THEN r ELSE JSONDecodeError
    ELSE JSONDecodeError

-----------------------------------------------------------------------------
(* The stats store *)

\* the state of STATS_FILE: whether it exists, and its text
NoFile == [exists |-> FALSE, text |-> <<>>]
FileOf(text) == [exists |-> TRUE, text |-> text]

\* {char: {"correct": 0, "incorrect": 0, "avg_time": None} for char in mkhedruli_alphabet}
FreshStats ==
    [char \in DOMAIN mkhedruli_alphabet |->
        [correct |-> 0, incorrect |-> 0, avg_time |-> None]]

\* f.read() of a file opened in text mode decodes its bytes
Decodable(text) == \A i \in 1..Len(text) : text[i] # <<"undecodable">>

\* load_stats(): the exception it raises ("" if none), the map returned and the
\* file it leaves behind
load_stats(f) ==
    IF f.exists
    THEN IF ~Decodable(f.text)
         THEN [raised |-> "UnicodeDecodeError", stats |-> <<>>, file |-> f]
         ELSE LET r == json_load(f.text)
              IN  IF r.ok THEN [raised |-> "", stats |-> r.value, file |-> f]
                  ELSE [raised |-> "", stats |-> FreshStats,
                        file |-> NoFile]                      \* os.remove(STATS_FILE)
    ELSE [raised |-> "", stats |-> FreshStats, file |-> f]

\* save_stats(stats): the file it writes
save_stats(st) == FileOf(json_dump(st))

-----------------------------------------------------------------------------
(* The weighting engine.  An error rate is a square root and is kept as the *)
(* fraction under the root: <<n, d>> stands for (n/d) ** 0.5.  A time term   *)
(* (avg_time / max_avg_time) ** time_factor is kept as the fraction <<a, m>> *)
(* of hundredths under the power.                                            *)

\* default_error_rate=0.5, the square root of 1/4
default_error_rate == <<1, 4>>

\* calculate_error_rates with the error rate of a record without attempts left at 0
calculate_error_rates_zero_default(st) ==
    [char \in DOMAIN st |->
        LET total_attempts == st[char]["correct"] + st[char]["incorrect"]
        IN  IF total_attempts > 0
            THEN <<st[char]["incorrect"], total_attempts>>
            ELSE <<0, 1>>]

\* calculate_error_rates with the share of correct answers in place of the misses
calculate_error_rates_of_correct(st) ==
    [char \in DOMAIN st |->
        LET total_attempts == st[char]["correct"] + st[char]["incorrect"]
        IN  IF total_attempts > 0
            THEN <<st[char]["correct"], total_attempts>>
            ELSE default_error_rate]

\* calculate_error_rates(stats)
calculate_error_rates(st) ==
    [char \in DOMAIN st |->
        LET total_attempts == st[char]["correct"] + st[char]["incorrect"]
        IN  IF total_attempts > 0
            THEN <<st[char]["incorrect"], total_attempts>>
            ELSE default_error_rate]

\* stat.get("avg_time", 0)
get_avg_time(stat) ==
    IF "avg_time" \in DOMAIN stat THEN stat["avg_time"] ELSE Float(0)

MaxOf(S) == CHOOSE m \in S : \A x \in S : x <= m

\* the weight error_rates[char] + avg_times[char] of one character
WeightOf(st, char, max_avg_time) ==
    [err |-> calculate_error_rates(st)[char],
     time |-> <<Hundredths(get_avg_time(st[char])), max_avg_time>>]

\* the sign of a weight: both terms are roots of non-negative fractions
IsPositive(w) == w.err[1] > 0 \/ w.time[1] > 0

\* choose_character(stats): the exception it raises ("" if none), the weights
\* it computes and the characters random.choices can return
choose_character(st) ==
    LET avgs == {get_avg_time(st[char]) : char \in DOMAIN st}
    IN  IF DOMAIN st = {}
        THEN [raised |-> "ValueError", weights |-> <<>>, chars |-> {}]      \* max([])
        ELSE IF None \in avgs
        THEN [raised |-> "TypeError", weights |-> <<>>, chars |-> {}]       \* max / division with None
        ELSE LET max_avg_time == MaxOf({Hundredths(a) : a \in avgs})
             IN  IF max_avg_time = 0
                 THEN [raised |-> "ZeroDivisionError", weights |-> <<>>, chars |-> {}]
                 ELSE IF ~(DOMAIN mkhedruli_alphabet \subseteq DOMAIN st)
                 THEN [raised |-> "KeyError", weights |-> <<>>, chars |-> {}]
                 ELSE LET weights == [char \in DOMAIN mkhedruli_alphabet |->
                                          WeightOf(st, char, max_avg_time)]
                          chars == {char \in DOMAIN weights : IsPositive(weights[char])}
                      IN  IF chars = {}
                          THEN [raised |-> "ValueError", weights |-> weights, chars |-> {}]
                          ELSE [raised |-> "", weights |-> weights, chars |-> chars]

-----------------------------------------------------------------------------
(* The question generator *)

\* sampling with replacement (random.choices in place of random.sample)
sample_with_replacement(population, k) == [1..k -> population]

\* random.sample(population, k): the lists it can return
sample(population, k) ==
    {s \in [1..k -> population] : \A i, j \in 1..k : i # j => s[i] # s[j]}

\* random.shuffle(seq): the orders it can leave
shuffle(seq) ==
    LET n == Len(seq)
        perms == {p \in [1..n -> 1..n] : \A i, j \in 1..n : i # j => p[i] # p[j]}
    IN  {[i \in 1..n |-> seq[p[i]]] : p \in perms}

\* main, lines 127-130: the option lists of a question about char
build_options(char) ==
    LET correct_name == mkhedruli_alphabet[char]
        names == {mkhedruli_alphabet[c] : c \in DOMAIN mkhedruli_alphabet} \ {correct_name}
    IN  UNION {shuffle(<<correct_name>> \o incorrect_names) :
                  incorrect_names \in sample(names, num_options - 1)}

\* the option lists of every character's questions
Questions == [char \in DOMAIN mkhedruli_alphabet |-> build_options(char)]

-----------------------------------------------------------------------------
(* Keystrokes *)

\* the characters a keystroke can deliver
Keys == {"0", "1", "2", "3", "4", "5", "q", "²"}

\* the time_diff values of an answer, in hundredths of a second
Times == {0, 3}

\* int(ch) for the characters int accepts
IntOf == ("0" :> 0) @@ ("1" :> 1) @@ ("2" :> 2) @@ ("3" :> 3) @@ ("4" :> 4) @@
         ("5" :> 5)

\* str.isdigit: true of the decimal digits and of digit characters such as a
\* superscript two, which int rejects
isdigit(ch) == ch \in DOMAIN IntOf \cup {"²"}

\* the condition of the while loop of main, line 136, on a character getch returned:
\* "again" to read again, "valid" to leave the loop, "ValueError" if int raises
answer_loop(ch) ==
    IF ~isdigit(ch) THEN "again"
    ELSE IF ch \notin DOMAIN IntOf THEN "ValueError"
    ELSE IF 1 <= IntOf[ch] /\ IntOf[ch] <= num_options THEN "valid"
    ELSE "again"

-----------------------------------------------------------------------------
(* The evaluation of an answer, main lines 140-157 *)

\* round(x / 2, 2) for x = sum hundredths: a tie in decimal goes either way,
\* by the binary value of the float
round_half(sum) ==
    IF sum % 2 = 0 THEN {sum \div 2} ELSE {sum \div 2, sum \div 2 + 1}

\* new_avg_time that overwrites the average with the last time
new_avg_time_overwrite(stat, t) == {Float(t)}

\* lines 144-151: the values avg_time can take after a correct answer in time t
new_avg_time(stat, t) ==
    IF "avg_time" \notin DOMAIN stat \/ stat["avg_time"] = None
    THEN {Float(t)}
    ELSE {Float(h) : h \in round_half(Hundredths(stat["avg_time"]) + t)}

\* lines 143-153: the stat record after a correct answer
mark_correct(stat, avg_time) ==
    ("avg_time" :> avg_time) @@ ("correct" :> stat["correct"] + 1) @@ stat

\* lines 155-157: the stat record after an incorrect answer
mark_incorrect(stat) ==
    ("incorrect" :> stat["incorrect"] + 1) @@ stat

\* is_correct with the index not shifted to zero-based: options[int(answer)]
is_correct_unshifted(opts, char, ch) ==
    opts[(IntOf[ch] % Len(opts)) + 1] = mkhedruli_alphabet[char]

\* line 142: options[int(answer)-1] == correct_name
is_correct(opts, char, ch) == opts[IntOf[ch]] = mkhedruli_alphabet[char]

\* evaluate on a map whose characters all share one record object
evaluate_shared_record(st, char, opts, ch, t) ==
    IF is_correct(opts, char, ch)
    THEN {[c \in DOMAIN st |-> mark_correct(st[c], a)] :
             a \in new_avg_time(st[char], t)}
    ELSE {[c \in DOMAIN st |-> mark_incorrect(st[c])]}

\* the stats maps main can hold after lines 142-157
evaluate(st, char, opts, ch, t) ==
    IF is_correct(opts, char, ch)
    THEN {[st EXCEPT ![char] = mark_correct(st[char], a)] :
             a \in new_avg_time(st[char], t)}
    ELSE {[st EXCEPT ![char] = mark_incorrect(st[char])]}

\* persist without the save_stats of line 163
persist_never(f, st, correct) == f

\* persist with the test of line 162 inverted
persist_on_incorrect(f, st, correct) == IF correct THEN f ELSE save_stats(st)

\* lines 162-163: the file after the answer
persist(f, st, correct) == IF correct THEN save_stats(st) ELSE f

-----------------------------------------------------------------------------
(* The session: main and getch *)

\* the stat records of the stats files a session starts from
InitRecords ==
    { [correct |-> 0, incorrect |-> 0, avg_time |-> None],
      [correct |-> 0, incorrect |-> 0],
      [correct |-> 1, incorrect |-> 0, avg_time |-> Float(0)],
      [correct |-> 1, incorrect |-> 1, avg_time |-> Float(10)] }

\* the maps of those files: one record for the first character and one for the
\* others, for all characters, all but the last, or none
InitMaps ==
    { [char \in keys |-> IF char = Glyphs[1] THEN r1 ELSE r2] :
        keys \in { Range(Glyphs), Range(Glyphs) \ {Glyphs[Len(Glyphs)]} },
        r1 \in InitRecords, r2 \in InitRecords }
    \cup { <<>> }

\* texts that are not JSON: an empty file, a file cut short after a key, a file
\* cut short in the middle of its first glyph
CorruptTexts ==
    { <<>>,
      <<<<"{">>, <<"str", Glyphs[1]>>, <<":">>, <<"{">>, <<"str", "correct">>>>,
      <<<<"{">>, <<"undecodable">>>> }

InitFiles ==
    {NoFile} \cup {FileOf(t) : t \in CorruptTexts} \cup {FileOf(json_dump(m)) : m \in InitMaps}

Init ==
    /\ pc = "Start"
    /\ stats = <<>>
    /\ file \in InitFiles
    /\ character = ""
    /\ options = <<>>
    /\ answer = ""
    /\ time_diff = 0
    /\ answered_correctly = FALSE
    /\ terminal = "cooked"
    /\ old_settings = "cooked"
    /\ exit_status = "none"
    /\ raised = ""
    /\ questions = 0

\* main, line 123: stats = load_stats()
Load ==
    /\ pc = "Start"
    /\ load_stats(file).raised = ""
    /\ stats' = load_stats(file).stats
    /\ file' = load_stats(file).file
    /\ pc' = "Loaded"
    /\ UNCHANGED <<character, options, answer, time_diff, answered_correctly, terminal,
                   old_settings, exit_status, raised, questions>>

\* main, line 123: load_stats raises, nothing catches it
LoadFails ==
    /\ pc = "Start"
    /\ load_stats(file).raised # ""
    /\ raised' = load_stats(file).raised
    /\ exit_status' = "1"
    /\ pc' = "Crashed"
    /\ UNCHANGED <<stats, file, character, options, answer, time_diff, answered_correctly,
                   terminal, old_settings, questions>>

\* main, lines 126-137: the next question is chosen, built and rendered, and getch
\* puts the terminal in raw mode and waits for a keystroke
NextQuestion ==
    /\ pc \in {"Loaded", "Evaluated"}
    /\ questions < MaxQuestions
    /\ choose_character(stats).raised = ""
    /\ \E char \in choose_character(stats).chars :
          \E opts \in Questions[char] :
             /\ character' = char
             /\ options' = opts
    /\ answer' = ""
    /\ old_settings' = terminal
    /\ terminal' = "raw"
    /\ questions' = questions + 1
    /\ pc' = "AwaitingAnswer"
    /\ UNCHANGED <<stats, file, time_diff, answered_correctly, exit_status, raised>>

\* main, line 126: choose_character raises, nothing catches it
ChooseFails ==
    /\ pc \in {"Loaded", "Evaluated"}
    /\ questions < MaxQuestions
    /\ choose_character(stats).raised # ""
    /\ raised' = choose_character(stats).raised
    /\ exit_status' = "1"
    /\ questions' = questions + 1
    /\ pc' = "Crashed"
    /\ UNCHANGED <<stats, file, character, options, answer, time_diff, answered_correctly,
                   terminal, old_settings>>

\* ExitKey with the process ended before the finally clause runs
ExitKey_without_finally ==
    /\ pc = "AwaitingAnswer"
    /\ exit_status' = "0"
    /\ pc' = "Terminated"
    /\ UNCHANGED <<stats, file, character, options, answer, time_diff, answered_correctly,
                   terminal, old_settings, raised, questions>>

\* getch, lines 113-118, reads the exit key: the terminal is restored and
\* sys.exit(0) ends the process where it stands
ExitKey ==
    /\ pc = "AwaitingAnswer"
    /\ terminal' = old_settings
    /\ exit_status' = "0"
    /\ pc' = "Terminated"
    /\ UNCHANGED <<stats, file, character, options, answer, time_diff, answered_correctly,
                   old_settings, raised, questions>>

\* getch returns a character the loop of line 136 rejects: getch is called again
InvalidKey ==
    /\ pc = "AwaitingAnswer"
    /\ \E ch \in Keys \ {EXIT_KEY} :
          /\ answer_loop(ch) = "again"
          /\ answer' = ch
    /\ old_settings' = old_settings
    /\ terminal' = "raw"
    /\ UNCHANGED <<pc, stats, file, character, options, time_diff, answered_correctly,
                   exit_status, raised, questions>>

\* getch returns a character for which isdigit holds and int raises ValueError
BadDigitKey ==
    /\ pc = "AwaitingAnswer"
    /\ \E ch \in Keys \ {EXIT_KEY} :
          /\ answer_loop(ch) = "ValueError"
          /\ answer' = ch
    /\ terminal' = old_settings
    /\ raised' = "ValueError"
    /\ exit_status' = "1"
    /\ pc' = "Crashed"
    /\ UNCHANGED <<stats, file, character, options, time_diff, answered_correctly,
                   old_settings, questions>>

\* getch returns a digit of 1..num_options: main, lines 138-163
Answer ==
    /\ pc = "AwaitingAnswer"
    /\ \E ch \in Keys \ {EXIT_KEY}, t \in Times :
          /\ answer_loop(ch) = "valid"
          /\ answer' = ch
          /\ time_diff' = IF is_correct(options, character, ch) THEN t ELSE time_diff
          /\ \E st \in evaluate(stats, character, options, ch, t) :
                /\ stats' = st
                /\ file' = persist(file, st, is_correct(options, character, ch))
          /\ answered_correctly' = is_correct(options, character, ch)
    /\ terminal' = old_settings
    /\ pc' = "Evaluated"
    /\ UNCHANGED <<character, options, old_settings, exit_status, raised, questions>>

Next ==
    \/ Load
    \/ LoadFails
    \/ NextQuestion
    \/ ChooseFails
    \/ ExitKey
    \/ InvalidKey
    \/ BadDigitKey
    \/ Answer

Spec == Init /\ [][Next]_vars

-----------------------------------------------------------------------------
(* Properties *)

\* the stats file exists and holds the in-memory stats map
OnDiskEqualsMemory ==
    /\ file.exists
    /\ json_load(file.text).ok
    /\ json_load(file.text).value = stats

\* main has loaded the stats
StatsLoaded == pc \notin {"Start", "Crashed"} \/ (pc = "Crashed" /\ questions > 0)

\* the label of the target character
correct_name == mkhedruli_alphabet[character]

\* the keys that are a digit of 1..num_options
OptionDigits == {ch \in DOMAIN IntOf : IntOf[ch] \in 1..num_options}

\* avg_time of a character, None when the record has no avg_time
AvgTimeOf(st, char) ==
    IF "avg_time" \in DOMAIN st[char] THEN st[char]["avg_time"] ELSE None

\* this step evaluates an answer
AnswerStep == pc = "AwaitingAnswer" /\ pc' = "Evaluated"

\* C1: whenever the session has terminated by the exit key, the stats file on
\* disk equals the in-memory stats map.
C1_ExitKeyPersistsStats == pc = "Terminated" => OnDiskEqualsMemory

\* C2: for every stats map a session holds, choose_character raises nothing and
\* gives every alphabet character a strictly positive weight.
C2_WeightsPositive ==
    StatsLoaded =>
        /\ choose_character(stats).raised = ""
        /\ \A char \in DOMAIN mkhedruli_alphabet :
              IsPositive(choose_character(stats).weights[char])

\* C3: after load_stats has read a parseable stats file, the map has an entry for
\* every alphabet character, with zero counts for those missing from the file.
C3_MissingKeysInitialised ==
    (pc = "Loaded" /\ file.exists /\ json_load(file.text).ok) =>
        \A char \in DOMAIN mkhedruli_alphabet :
            /\ char \in DOMAIN stats
            /\ char \notin DOMAIN json_load(file.text).value =>
                  stats[char]["correct"] = 0 /\ stats[char]["incorrect"] = 0

\* the stats file is absent, or its text is not JSON
AbsentOrCorrupt(f) == ~f.exists \/ ~json_load(f.text).ok

\* C4: when the stats file is absent or not valid JSON, load_stats raises nothing
\* and returns a map with correct = 0 and incorrect = 0 for every alphabet
\* character, and afterwards no stats file exists.
C4_CorruptOrAbsentLoadsFresh ==
    [][(pc = "Start" /\ AbsentOrCorrupt(file)) =>
          /\ pc' = "Loaded" /\ raised' = ""
          /\ DOMAIN stats' = DOMAIN mkhedruli_alphabet
          /\ \A char \in DOMAIN stats' :
                stats'[char]["correct"] = 0 /\ stats'[char]["incorrect"] = 0
          /\ ~file'.exists]_vars

\* C5: for every stats map a session holds, save_stats followed by load_stats
\* returns an equal map.  The map changes at lines 60, 64 and 143-157 only: it
\* is looked at where it has just been assigned.
C5_RoundTrip ==
    pc \in {"Loaded", "Evaluated"} => load_stats(save_stats(stats)).stats = stats

C5_Witness ==
    /\ pc = "Evaluated" /\ answered_correctly
    /\ file = save_stats(stats) /\ load_stats(file).stats = stats
    /\ \E char \in DOMAIN stats : "avg_time" \notin DOMAIN stats[char]
    /\ stats[character]["avg_time"] = Float(3)

\* C6: after a correct answer has been evaluated, and until the next question is
\* rendered, the stats file equals the in-memory stats map.
C6_SavedAfterCorrect ==
    (pc = "Evaluated" /\ answered_correctly) => OnDiskEqualsMemory

C6_Witness ==
    pc = "Evaluated" /\ answered_correctly /\ questions = 2 /\ OnDiskEqualsMemory

\* C7: a keystroke that is neither the exit key nor a digit of 1..num_options
\* leaves the stats map, the stats file, the question and its options as they
\* are, and the session in AwaitingAnswer.
C7_InvalidKeyReprompts ==
    [][(pc = "AwaitingAnswer" /\ pc' # "Terminated" /\ answer' \notin OptionDigits) =>
          /\ pc' = "AwaitingAnswer"
          /\ UNCHANGED <<stats, file, character, options>>]_vars

\* C8: an answer with the digit of the option that holds the correct label adds 1
\* to the target's correct count and leaves its incorrect count; any other valid
\* digit adds 1 to its incorrect count and leaves its correct count.
C8_AnswerCounts ==
    [][AnswerStep =>
          IF options[IntOf[answer']] = correct_name
          THEN /\ stats'[character]["correct"] = stats[character]["correct"] + 1
               /\ stats'[character]["incorrect"] = stats[character]["incorrect"]
          ELSE /\ stats'[character]["incorrect"] = stats[character]["incorrect"] + 1
               /\ stats'[character]["correct"] = stats[character]["correct"]]_vars

C8_Witness ==
    /\ pc = "Evaluated" /\ questions = 2
    /\ options[IntOf[answer]] = correct_name
    /\ stats[character]["correct"] = 2

\* C9: the option list of a question has num_options entries, holds the correct
\* label exactly once, and its other entries are pairwise distinct labels of
\* other alphabet characters.
C9_OptionsWellFormed ==
    pc = "AwaitingAnswer" =>
        /\ Len(options) = num_options
        /\ Cardinality({i \in 1..Len(options) : options[i] = correct_name}) = 1
        /\ \A i \in 1..Len(options) :
              \E char \in DOMAIN mkhedruli_alphabet : options[i] = mkhedruli_alphabet[char]
        /\ \A i, j \in 1..Len(options) : i # j => options[i] # options[j]

C9_Witness ==
    /\ pc = "AwaitingAnswer" /\ questions = 2
    /\ options[num_options] = correct_name

\* r is sum / 2 rounded to the nearest integer, a tie going either way
RoundsHalf(sum, r) == 2 * r - sum \in {-1, 0, 1}

\* C10: avg_time of a character changes only by a correct answer about it: the
\* first one sets it to the response time, a later one to the rounded mean of
\* the old avg_time and the response time.
C10_AvgTimeUpdate ==
    [][StatsLoaded =>
          \A char \in DOMAIN stats :
             LET old == AvgTimeOf(stats, char)
                 new == AvgTimeOf(stats', char)
             IN  IF AnswerStep /\ char = character
                    /\ options[IntOf[answer']] = correct_name
                 THEN IF old = None THEN new = Float(time_diff')
                      ELSE /\ new # None
                           /\ RoundsHalf(Hundredths(old) + time_diff', Hundredths(new))
                 ELSE new = old]_vars

C10_Witness ==
    /\ pc = "Evaluated" /\ answered_correctly /\ questions = 2
    /\ time_diff = 3
    /\ stats[character] = [correct |-> 2, incorrect |-> 0, avg_time |-> Float(3)]

\* the characters whose avg_time is None or absent
UndefinedAvgTime(st) == {char \in DOMAIN st : AvgTimeOf(st, char) = None}

\* some character has an avg_time above 0
SomeAvgTime(st) ==
    \E char \in DOMAIN st : AvgTimeOf(st, char) # None /\ Hundredths(AvgTimeOf(st, char)) > 0

\* C11: with an entry for every alphabet character and a numeric avg_time above 0
\* for some of them, choose_character raises nothing and the time term of every
\* character whose avg_time is None or absent is 0.
C11_UndefinedAvgTimeIsZero ==
    (StatsLoaded /\ DOMAIN mkhedruli_alphabet \subseteq DOMAIN stats /\ SomeAvgTime(stats)) =>
        /\ choose_character(stats).raised = ""
        /\ \A char \in UndefinedAvgTime(stats) \cap DOMAIN mkhedruli_alphabet :
              choose_character(stats).weights[char].time[1] = 0

\* C12: once the stats are loaded the process ends only by the exit key, with
\* exit status 0: it never ends by an uncaught exception.
C12_EndsOnlyByExitKey ==
    StatsLoaded => (exit_status = "none" \/ (pc = "Terminated" /\ exit_status = "0"))

\* the states of the session loop
SessionStates == {"AwaitingAnswer", "Evaluated", "Terminated"}

\* C13: between the states of the session loop the only moves are AwaitingAnswer
\* to Evaluated, Evaluated to AwaitingAnswer and Evaluated to Terminated.
C13_SessionTransitions ==
    [][(pc \in SessionStates /\ pc' \in SessionStates /\ pc' # pc) =>
          <<pc, pc'>> \in { <<"AwaitingAnswer", "Evaluated">>,
                            <<"Evaluated", "AwaitingAnswer">>,
                            <<"Evaluated", "Terminated">> }]_vars

\* the record has no attempts
NoAttempts(stat) == stat["correct"] + stat["incorrect"] = 0

\* the root of the fraction <<n, d>> is 0.5: n/d = 1/4
IsOneHalf(rate) == rate[2] > 0 /\ 4 * rate[1] = rate[2]

\* choose_character has just passed the map in stats to calculate_error_rates
\* (line 84): a question was rendered from it, or line 85 or 87 raised
ErrorRatesComputed ==
    \/ pc = "AwaitingAnswer" /\ answer = ""
    \/ pc = "Crashed" /\ questions > 0 /\ answer \in OptionDigits \cup {""}

\* C14: the error rate that calculate_error_rates computes for every stat record
\* with correct + incorrect = 0 is 0.5.
C14_DefaultErrorRate ==
    ErrorRatesComputed =>
        LET error_rates == calculate_error_rates(stats)
        IN  \A char \in DOMAIN stats :
                NoAttempts(stats[char]) => IsOneHalf(error_rates[char])

C14_Witness ==
    /\ pc = "AwaitingAnswer" /\ answer = ""
    /\ NoAttempts(stats[character])
    /\ IsOneHalf(calculate_error_rates(stats)[character])

\* the miss ratio incorrect / (correct + incorrect) of a record, as a fraction
MissRatio(stat) == <<stat["incorrect"], stat["correct"] + stat["incorrect"]>>

\* order and equality of two fractions with positive denominators (and so of
\* their square roots)
FracLeq(x, y) == x[1] * y[2] <= y[1] * x[2]
FracEq(x, y) == x[1] * y[2] = y[1] * x[2]

\* C15: the error rate that calculate_error_rates computes for a record with
\* attempts is the root of its miss ratio, and of two such records the one
\* with the smaller or equal miss ratio has the smaller or equal error rate.
C15_ErrorRateMonotone ==
    ErrorRatesComputed =>
        LET error_rates == calculate_error_rates(stats)
        IN  \A a, b \in {char \in DOMAIN stats : ~NoAttempts(stats[char])} :
                /\ error_rates[a][2] > 0
                /\ FracEq(error_rates[a], MissRatio(stats[a]))
                /\ FracLeq(MissRatio(stats[a]), MissRatio(stats[b])) =>
                      FracLeq(error_rates[a], error_rates[b])

C15_Witness ==
    /\ pc = "AwaitingAnswer" /\ answer = ""
    /\ \E a, b \in DOMAIN stats :
          /\ ~NoAttempts(stats[a]) /\ ~NoAttempts(stats[b])
          /\ stats[a]["incorrect"] > 0
          /\ ~FracLeq(MissRatio(stats[b]), MissRatio(stats[a]))
          /\ ~FracLeq(calculate_error_rates(stats)[b], calculate_error_rates(stats)[a])

\* C17: outside getch the terminal has the attributes it had before getch was
\* called, whichever way getch was left: by a return or by the exit key.
C17_TerminalRestored ==
    pc # "AwaitingAnswer" => terminal = "cooked"

C17_Witness ==
    pc = "Terminated" /\ terminal = "cooked" /\ old_settings = "cooked" /\ questions = 2

\* C18: an answer about the target character leaves the keys of the stats map and
\* the record of every other character as they are, and an incorrect answer
\* leaves the target's correct count and avg_time as they are.
C18_AnswerFrame ==
    [][AnswerStep =>
          /\ DOMAIN stats' = DOMAIN stats
          /\ \A char \in DOMAIN stats \ {character} : stats'[char] = stats[char]
          /\ options[IntOf[answer']] # correct_name =>
                /\ stats'[character]["correct"] = stats[character]["correct"]
                /\ ("avg_time" \in DOMAIN stats'[character])
                      = ("avg_time" \in DOMAIN stats[character])
                /\ AvgTimeOf(stats', character) = AvgTimeOf(stats, character)]_vars

C18_Witness ==
    /\ pc = "Evaluated" /\ ~answered_correctly /\ questions = 2
    /\ stats[character]["incorrect"] = 2
    /\ \E char \in DOMAIN stats \ {character} : stats[char]["correct"] = 1

\* the file of line 48 parses to a map that has the keys of st and, for every
\* character, its correct count and avg_time and at most its incorrect count
LagsByIncorrect(f, st) ==
    LET loaded == json_load(f.text)
        on_disk == loaded.value
    IN  /\ loaded.ok
        /\ DOMAIN on_disk = DOMAIN st
        /\ \A char \in DOMAIN st :
              /\ on_disk[char]["correct"] = st[char]["correct"]
              /\ ("avg_time" \in DOMAIN on_disk[char]) = ("avg_time" \in DOMAIN st[char])
              /\ AvgTimeOf(on_disk, char) = AvgTimeOf(st, char)
              /\ on_disk[char]["incorrect"] <= st[char]["incorrect"]

\* C19: whenever a question waits for its answer and the stats file exists, the
\* file has the keys of the in-memory map and, for every character, its correct
\* count and avg_time, and an incorrect count that is at most the in-memory one.
C19_DiskLagsByIncorrect ==
    (pc = "AwaitingAnswer" /\ file.exists) => LagsByIncorrect(file, stats)

C19_Witness ==
    /\ pc = "AwaitingAnswer" /\ file.exists /\ questions = 2
    /\ LagsByIncorrect(file, stats)
    /\ json_load(file.text).value # stats

====
